---- MODULE Spec2Model ----
(***************************************************************************)
(* Model of oslo_middleware.healthcheck.Healthcheck: the path gate, the    *)
(* backend invocation loop, the verdict, content negotiation and the       *)
(* text / json / html / HEAD renderers.                                     *)
(*                                                                         *)
(* Strings whose content the code inspects (reasons, bodies) are sequences *)
(* of one-character strings.  Paths are sequences of segments, media types *)
(* are <<major, minor>> pairs.                                              *)
(***************************************************************************)
EXTENDS Integers, Sequences, FiniteSets, TLC

VARIABLES conf, req, pc, results, invoked, response

vars == <<conf, req, pc, results, invoked, response>>

\* ---------------------------------------------------------------- bounds
MaxBackends == 3

\* ------------------------------------------------------------- constants
HTTPOk == 200
HTTPNoContent == 204
HTTPServiceUnavailable == 503

TextPlain == <<"text", "plain">>
TextHtml == <<"text", "html">>
ApplicationJson == <<"application", "json">>

\* ---------------------------------------------------------------- inputs
DefaultPath == <<"healthcheck">>
ConfPaths == {DefaultPath, <<"status">>}
ReqPaths == {<<"healthcheck">>, <<"healthcheck", "">>, <<"healthcheck", "x">>,
             <<"status">>, <<"status", "">>}
Methods == {"GET", "HEAD", "POST"}

\* A loaded backend plugin: its implementation type and the type of the
\* result objects its healthcheck() returns.
BackendImpls ==
    { [impl |-> "DisableByFileHealthcheck", result_type |-> "HealthcheckResult"],
      [impl |-> "DisableByFilesPortsHealthcheck", result_type |-> "HealthcheckResult"] }

\* What a backend's healthcheck() may return: healthy with no reason or
\* with "OK", unhealthy with no reason or with a reason ending in a blank.
CheckResults ==
    { [available |-> TRUE, reason |-> <<>>],
      [available |-> TRUE, reason |-> <<"O", "K">>],
      [available |-> FALSE, reason |-> <<>>],
      [available |-> FALSE, reason |-> <<"n", "o", " ">>] }

NoHeader == [present |-> FALSE, parsed |-> <<>>]
Header(items) == [present |-> TRUE, parsed |-> items]
Accepts ==
    { NoHeader,
      Header(<< <<TextPlain, 10>> >>),
      Header(<< <<TextHtml, 10>> >>),
      Header(<< <<ApplicationJson, 10>> >>),
      Header(<< <<(<<"text", "unsupported-type">>), 10>> >>),
      Header(<< <<TextHtml, 5>>, <<(<<"application", "*">>), 10>> >>) }

Hostnames == { <<>>, <<"h", "<">> }

SeqsUpTo(S, n) == UNION { [1..k -> S] : k \in 0..n }

Requests == [path : ReqPaths, method : Methods, accept : Accepts]

NoRequest == [path |-> <<>>, method |-> "", accept |-> NoHeader]

NoneResponse == [kind |-> "None"]
Unset == [kind |-> "Unset"]

\* ------------------------------------------------------------ __init__
Init ==
    /\ conf \in [path : ConfPaths, show_details : BOOLEAN,
                 backends : SeqsUpTo(BackendImpls, MaxBackends)]
    /\ req = NoRequest
    /\ pc = "idle"
    /\ results = <<>>
    /\ invoked = <<>>
    /\ response = Unset

\* ------------------------------------------------------- string helpers
Whitespace == {" ", "\n", "\t", "\r"}

RECURSIVE lstrip(_)
lstrip(s) ==
    IF s # <<>> /\ Head(s) \in Whitespace THEN lstrip(Tail(s)) ELSE s

RECURSIVE rstrip(_)
rstrip(s) ==
    IF s # <<>> /\ s[Len(s)] \in Whitespace
    THEN rstrip(SubSeq(s, 1, Len(s) - 1))
    ELSE s

\* str.strip()
strip(s) == rstrip(lstrip(s))

\* jinja2 "|e" filter, character by character
EscapeChar(c) ==
    IF c = "&" THEN <<"&", "a", "m", "p", ";">>
    ELSE IF c = "<" THEN <<"&", "l", "t", ";">>
    ELSE IF c = ">" THEN <<"&", "g", "t", ";">>
    ELSE IF c = "'" THEN <<"&", "#", "3", "9", ";">>
    ELSE IF c = "\"" THEN <<"&", "#", "3", "4", ";">>
    ELSE <<c>>

RECURSIVE escape(_)
escape(s) == IF s = <<>> THEN <<>> ELSE EscapeChar(Head(s)) \o escape(Tail(s))

\* reflection.get_class_name(obj, fully_qualified=False): the unqualified
\* name of the type of the object it is handed.
get_class_name(obj) == obj.type_name

\* --------------------------------------------------------------- verdict
\* Variant: the loop returns on the first result it sees.
are_results_healthy_first(rs) == rs = <<>> \/ rs[1].available

RECURSIVE are_results_healthy_from(_, _)
are_results_healthy_from(rs, i) ==
    IF i > Len(rs) THEN TRUE
    ELSE IF ~rs[i].available THEN FALSE
    ELSE are_results_healthy_from(rs, i + 1)

_are_results_healthy(rs) == are_results_healthy_from(rs, 1)

\* ------------------------------------------------------------- text/plain
\* PLAIN_RESPONSE_TEMPLATE: a newline of literal text before the for block,
\* then per iteration the newline that follows the for tag and the reason
\* when it is truthy; the newline after "endif -" is stripped by the tag and
\* the template's single trailing newline is dropped by jinja2.
RECURSIVE plain_template_loop(_)
plain_template_loop(reasons) ==
    IF reasons = <<>> THEN <<>>
    ELSE <<"\n">> \o (IF Head(reasons) # <<>> THEN Head(reasons) ELSE <<>>)
         \o plain_template_loop(Tail(reasons))

PLAIN_RESPONSE_TEMPLATE(reasons) == <<"\n">> \o plain_template_loop(reasons)

_make_text_response(rs, healthy) ==
    LET reasons == [i \in DOMAIN rs |-> rs[i].reason]
    IN [body |-> strip(PLAIN_RESPONSE_TEMPLATE(reasons)),
        content_type |-> TextPlain]

\* ------------------------------------------------------- application/json
\* json.dumps(..., sort_keys=True): an object is its items in key order.
KeyOrder == <<"class", "detailed", "reason", "reasons">>

RECURSIVE sorted_items_from(_, _)
sorted_items_from(obj, k) ==
    IF k > Len(KeyOrder) THEN <<>>
    ELSE (IF KeyOrder[k] \in DOMAIN obj
          THEN << <<KeyOrder[k], obj[KeyOrder[k]]>> >>
          ELSE <<>>)
         \o sorted_items_from(obj, k + 1)

_pretty_json_dumps(contents) == sorted_items_from(contents, 1)

\* Variant: reasons that are empty are left out of the array.
json_response_skip_empty(rs, healthy) ==
    LET kept == SelectSeq(rs, LAMBDA r : r.reason # <<>>)
        body ==
          IF conf.show_details
          THEN [detailed |-> TRUE,
                reasons |-> [i \in DOMAIN kept |->
                    _pretty_json_dumps(
                        [reason |-> kept[i].reason,
                         class |-> get_class_name(kept[i])])]]
          ELSE [reasons |-> [i \in DOMAIN kept |-> kept[i].reason],
                detailed |-> FALSE]
    IN [body |-> _pretty_json_dumps(body), content_type |-> ApplicationJson]

_make_json_response(rs, healthy) ==
    LET body ==
          IF conf.show_details
          THEN [detailed |-> TRUE,
                reasons |-> [i \in DOMAIN rs |->
                    _pretty_json_dumps(
                        [reason |-> rs[i].reason,
                         class |-> get_class_name(rs[i])])]]
          ELSE [reasons |-> [i \in DOMAIN rs |-> rs[i].reason],
                detailed |-> FALSE]
    IN [body |-> _pretty_json_dumps(body), content_type |-> ApplicationJson]

\* ------------------------------------------------------------------ HEAD
\* Variant: HEAD is rendered like a text/plain GET.
head_response_as_text(rs, healthy) == _make_text_response(rs, healthy)

_make_head_response(rs, healthy) == [body |-> <<>>, content_type |-> TextPlain]

\* -------------------------------------------------------------- text/html
\* HTML_RESPONSE_TEMPLATE: the H1 heading (detailed and hostname truthy),
\* the count of all results, and one row per result with a truthy reason.
\* A type name is an identifier and is kept as one token.
RECURSIVE html_rows(_, _)
html_rows(translated, detailed) ==
    IF translated = <<>> THEN <<>>
    ELSE (IF Head(translated).reason # <<>>
          THEN << (IF detailed THEN <<escape(<<Head(translated).class>>)>> ELSE <<>>)
                   \o <<escape(Head(translated).reason)>> >>
          ELSE <<>>)
         \o html_rows(Tail(translated), detailed)

HTML_RESPONSE_TEMPLATE(params) ==
    [heading |-> IF params.detailed /\ params.hostname # <<>>
                 THEN <<escape(params.hostname)>> ELSE <<>>,
     count |-> Len(params.results),
     rows |-> html_rows(params.results, params.detailed)]

\* hostname is socket.gethostname(), or <<>> (None) on socket.error
_make_html_response(rs, healthy, hostname) ==
    LET translated_results ==
          [i \in DOMAIN rs |-> [reason |-> rs[i].reason,
                                class |-> get_class_name(rs[i])]]
        params == [healthy |-> healthy, hostname |-> hostname,
                   results |-> translated_results,
                   detailed |-> conf.show_details]
    IN [body |-> HTML_RESPONSE_TEMPLATE(params), content_type |-> TextHtml]

\* ------------------------------------------------ content negotiation
\* webob MIMEAccept._match(mask, offer)
accept_match(mask, offer) ==
    IF mask[1] # "*" /\ mask[2] # "*" THEN offer = mask
    ELSE IF mask = <<"*", "*">> THEN TRUE
    ELSE offer[1] = mask[1]

\* mask.count('*')
StarCount(mask) ==
    (IF mask[1] = "*" THEN 1 ELSE 0) + (IF mask[2] = "*" THEN 1 ELSE 0)

NoMatch == <<>>

\* webob MIMEAccept.best_match: offers in the outer loop, the header's
\* (mask, quality) items in the inner loop; acc is (best_quality,
\* best_offer, matched_by).
RECURSIVE best_match_loop(_, _, _, _, _)
best_match_loop(offers, parsed, o, m, acc) ==
    IF o > Len(offers) THEN acc.best_offer
    ELSE IF m > Len(parsed) THEN best_match_loop(offers, parsed, o + 1, 1, acc)
    ELSE LET mask == parsed[m][1]
             possible_quality == parsed[m][2]
             skip == \/ possible_quality < acc.best_quality
                     \/ /\ possible_quality = acc.best_quality
                        /\ StarCount(acc.matched_by) <= StarCount(mask)
         IN IF ~skip /\ accept_match(mask, offers[o])
            THEN best_match_loop(offers, parsed, o, m + 1,
                     [best_quality |-> possible_quality,
                      best_offer |-> offers[o], matched_by |-> mask])
            ELSE best_match_loop(offers, parsed, o, m + 1, acc)

\* req.accept.best_match(offers): without an Accept header every offer is
\* acceptable with quality 1 and the first one wins.
best_match(accept, offers) ==
    IF ~accept.present
    THEN (IF offers = <<>> THEN NoMatch ELSE offers[1])
    ELSE best_match_loop(offers, accept.parsed, 1, 1,
             [best_quality |-> -1, best_offer |-> NoMatch,
              matched_by |-> <<"*", "*">>])

\* ----------------------------------------------------- process_request
HEALTHY_TO_STATUS_CODES(healthy) ==
    IF healthy THEN HTTPOk ELSE HTTPServiceUnavailable

\* Variant: HEAD uses the table of the other methods.
head_status_as_get(healthy) == HEALTHY_TO_STATUS_CODES(healthy)

HEAD_HEALTHY_TO_STATUS_CODES(healthy) ==
    IF healthy THEN HTTPNoContent ELSE HTTPServiceUnavailable

_accept_order == <<TextPlain, TextHtml, ApplicationJson>>

\* Variant: the fallback is the html renderer.
default_accept_html == TextHtml

_default_accept == TextPlain

\* self._accept_to_functor[accept_type](results, healthy); a key that is
\* not in the mapping raises KeyError.
_accept_to_functor(accept_type, rs, healthy, hostname) ==
    IF accept_type = TextPlain THEN _make_text_response(rs, healthy)
    ELSE IF accept_type = TextHtml THEN _make_html_response(rs, healthy, hostname)
    ELSE IF accept_type = ApplicationJson THEN _make_json_response(rs, healthy)
    ELSE [body |-> <<>>, content_type |-> <<"KeyError">>]

IsPrefix(p, s) == Len(p) <= Len(s) /\ SubSeq(s, 1, Len(p)) = p

\* Variant: the gate matches by prefix.
path_differs_prefix(req_path, conf_path) == ~IsPrefix(conf_path, req_path)

\* req.path != self._path
path_differs(req_path, conf_path) == req_path # conf_path

\* Variant: the loop stops at the first unavailable result.
invoke_done_short(rs) ==
    \/ Len(rs) = Len(conf.backends)
    \/ (rs # <<>> /\ ~rs[Len(rs)].available)

\* results = [ext.obj.healthcheck() for ext in self._backends] is complete
invoke_done(rs) == Len(rs) = Len(conf.backends)

\* lines 250-262: verdict, status, negotiation, rendering
make_response(r, rs, hostname) ==
    LET healthy == _are_results_healthy(rs)
        status == IF r.method = "HEAD"
                  THEN HEAD_HEALTHY_TO_STATUS_CODES(healthy)
                  ELSE HEALTHY_TO_STATUS_CODES(healthy)
        best == best_match(r.accept, _accept_order)
        accept_type == IF best = NoMatch THEN _default_accept ELSE best
        rendered == IF r.method = "HEAD"
                    THEN _make_head_response(rs, healthy)
                    ELSE _accept_to_functor(accept_type, rs, healthy, hostname)
    IN IF rendered.content_type = <<"KeyError">>
       THEN [kind |-> "KeyError"]
       ELSE [kind |-> "Response", status |-> status, body |-> rendered.body,
             content_type |-> rendered.content_type]

\* A request arrives and process_request tests its path.
ProcessRequest ==
    /\ pc = "idle"
    /\ \E r \in Requests :
         /\ req' = r
         /\ results' = <<>>
         /\ invoked' = <<>>
         /\ IF path_differs(r.path, conf.path)
            THEN response' = NoneResponse /\ pc' = "done"
            ELSE response' = Unset /\ pc' = "invoke"
    /\ UNCHANGED conf

\* The list comprehension calls the next backend's healthcheck().
Healthcheck ==
    /\ pc = "invoke"
    /\ ~invoke_done(results)
    /\ LET i == Len(results) + 1
       IN \E r \in CheckResults :
            /\ results' = Append(results,
                   [available |-> r.available, reason |-> r.reason,
                    type_name |-> conf.backends[i].result_type])
            /\ invoked' = Append(invoked, i)
    /\ UNCHANGED <<conf, req, pc, response>>

\* The verdict is computed and the response is built and returned.
Respond ==
    /\ pc = "invoke"
    /\ invoke_done(results)
    /\ \E hostname \in Hostnames :
         response' = make_response(req, results, hostname)
    /\ pc' = "done"
    /\ UNCHANGED <<conf, req, results, invoked>>

\* The handler has returned; nothing of the request is kept.
Return ==
    /\ pc = "done"
    /\ pc' = "idle"
    /\ req' = NoRequest
    /\ results' = <<>>
    /\ invoked' = <<>>
    /\ response' = Unset
    /\ UNCHANGED conf

Next == ProcessRequest \/ Healthcheck \/ Respond \/ Return

Spec == Init /\ [][Next]_vars

\* ======================================================================
\* Properties
\* ======================================================================
Done == pc = "done"
OnPath == req.path = conf.path
Responded == Done /\ response.kind = "Response"
AllAvailable == \A i \in DOMAIN results : results[i].available
Lookup(items, key) ==
    items[CHOOSE k \in DOMAIN items : items[k][1] = key][2]
HasKey(items, key) == \E k \in DOMAIN items : items[k][1] = key

\* C1: process_request returns None exactly when the request path is not
\* equal to the configured path (prefixes and trailing slashes included),
\* and returns a response of its own when the path is equal, for every
\* method and Accept header.
C1_ExactPathGate ==
    Done => /\ (response.kind = "None") <=> (req.path # conf.path)
            /\ (req.path = conf.path) => (response.kind = "Response")

C1_Witness ==
    /\ Done
    /\ response.kind = "None"
    /\ req.path # conf.path
    /\ IsPrefix(conf.path, req.path)
    /\ req.path[Len(req.path)] = ""

\* C2: on the configured path the status is 503 when some result is
\* unavailable, 204 when all are available and the method is HEAD, 200
\* when all are available and the method is anything else; no other
\* status is emitted, and with no backends HEAD gives 204, others 200.
C2_StatusTable ==
    (Done /\ OnPath) =>
        /\ response.kind = "Response"
        /\ response.status \in {200, 204, 503}
        /\ response.status =
             (IF ~AllAvailable THEN 503
              ELSE IF req.method = "HEAD" THEN 204 ELSE 200)
        /\ (conf.backends = <<>>) =>
             response.status = (IF req.method = "HEAD" THEN 204 ELSE 200)

C2_Witness ==
    /\ Responded
    /\ req.method = "HEAD"
    /\ conf.backends = <<>>
    /\ response.status = 204

\* C3: the verdict of _are_results_healthy is the AND of available over
\* the collected results (true for the empty sequence, false as soon as
\* one result is unavailable) and is the same for every permutation of
\* the results.
C3_VerdictIsAnd ==
    /\ _are_results_healthy(results) = AllAvailable
    /\ \A perm \in Permutations(DOMAIN results) :
         _are_results_healthy([i \in DOMAIN results |-> results[perm[i]]])
           = _are_results_healthy(results)

C3_Witness ==
    /\ Responded
    /\ Len(results) = 3
    /\ results[1].available
    /\ results[2].available
    /\ ~results[3].available
    /\ response.status = 503

\* C4: a HEAD request on the configured path gets an empty body, content
\* type text/plain and status 204 (healthy) or 503 (unhealthy), whatever
\* the Accept header, show_details and the reasons are.
C4_HeadResponse ==
    (Done /\ OnPath /\ req.method = "HEAD") =>
        /\ response.kind = "Response"
        /\ response.content_type = <<"text", "plain">>
        /\ response.body = <<>>
        /\ response.status = (IF AllAvailable THEN 204 ELSE 503)

C4_Witness ==
    /\ Responded
    /\ req.method = "HEAD"
    /\ req.accept = Header(<< <<ApplicationJson, 10>> >>)
    /\ conf.show_details
    /\ \E i \in DOMAIN results :
         ~results[i].available /\ results[i].reason # <<>>
    /\ response.body = <<>>

\* C5: a non-HEAD request on the configured path whose Accept header is
\* absent or covers none of text/plain, text/html and application/json is
\* answered without error, with the body, content type and status of the
\* same request sent with Accept: text/plain.
MaskCovers(mask, offer) ==
    \/ mask = offer
    \/ mask = <<"*", "*">>
    \/ (mask[2] = "*" /\ mask[1] = offer[1])

NothingAcceptable(accept) ==
    \/ ~accept.present
    \/ \A k \in DOMAIN accept.parsed :
         \A offer \in {<<"text", "plain">>, <<"text", "html">>,
                       <<"application", "json">>} :
           ~MaskCovers(accept.parsed[k][1], offer)

AsTextPlainRequest(r) ==
    [r EXCEPT !.accept = Header(<< <<(<<"text", "plain">>), 10>> >>)]

C5_NoMatchIsTextPlain ==
    (Done /\ OnPath /\ req.method # "HEAD" /\ NothingAcceptable(req.accept)) =>
        /\ response.kind = "Response"
        /\ \A h \in Hostnames :
             LET ref == make_response(AsTextPlainRequest(req), results, h)
             IN /\ ref.kind = "Response"
                /\ response.content_type = ref.content_type
                /\ response.status = ref.status
                /\ response.body = ref.body

C5_Witness ==
    /\ Responded
    /\ req.method = "GET"
    /\ req.accept = Header(<< <<(<<"text", "unsupported-type">>), 10>> >>)
    /\ response.content_type = TextPlain
    /\ response.body # <<>>
    /\ conf.show_details

\* C6: the text/plain body is the non-empty reasons, in invocation order,
\* joined by single newlines and trimmed; a result with an empty reason
\* adds nothing to the body (no blank line) wherever it sits.
RECURSIVE JoinLines(_)
JoinLines(lines) ==
    IF lines = <<>> THEN <<>>
    ELSE IF Len(lines) = 1 THEN lines[1]
    ELSE lines[1] \o <<"\n">> \o JoinLines(Tail(lines))

NonEmptyReasons ==
    SelectSeq([i \in DOMAIN results |-> results[i].reason],
              LAMBDA r : r # <<>>)

C6_PlainBodyIsJoinedReasons ==
    (Responded /\ req.method # "HEAD" /\ response.content_type = TextPlain) =>
        response.body = strip(JoinLines(NonEmptyReasons))

\* C7: with Accept: application/json on a non-HEAD request the document's
\* detailed key equals show_details and reasons has one element per
\* invoked backend, in order, empty reasons included: the reason string
\* without details, a {reason, class} object with details.
C7_JsonDocument ==
    /\ (Done /\ OnPath /\ req.method # "HEAD"
          /\ req.accept = Header(<< <<(<<"application", "json">>), 10>> >>))
         => (response.kind = "Response"
               /\ response.content_type = <<"application", "json">>)
    /\ (Responded /\ response.content_type = <<"application", "json">>) =>
         LET doc == response.body
             reasons == Lookup(doc, "reasons")
         IN /\ Len(doc) = 2
            /\ HasKey(doc, "detailed") /\ HasKey(doc, "reasons")
            /\ Lookup(doc, "detailed") = conf.show_details
            /\ Len(reasons) = Len(conf.backends)
            /\ Len(reasons) = Len(invoked)
            /\ \A i \in DOMAIN reasons :
                 IF conf.show_details
                 THEN /\ Len(reasons[i]) = 2
                      /\ HasKey(reasons[i], "reason")
                      /\ HasKey(reasons[i], "class")
                      /\ Lookup(reasons[i], "reason") = results[i].reason
                 ELSE reasons[i] = results[i].reason

C7_Witness ==
    /\ Responded
    /\ req.method = "GET"
    /\ response.content_type = ApplicationJson
    /\ conf.show_details
    /\ Len(results) = 3
    /\ results[2].reason = <<>>
    /\ results[3].reason # <<>>

\* C8: in detail mode the class reported for a backend, in the JSON
\* reasons objects and in the HTML rows, is the unqualified type name of
\* the backend implementation that produced the result.
BackendsWithReason ==
    SelectSeq([i \in DOMAIN results |->
                  [impl |-> conf.backends[i].impl, reason |-> results[i].reason]],
              LAMBDA b : b.reason # <<>>)

C8_ClassIsBackendImplementation ==
    (Responded /\ conf.show_details /\ req.method # "HEAD") =>
        /\ (response.content_type = ApplicationJson) =>
             \A i \in DOMAIN results :
               Lookup(Lookup(response.body, "reasons")[i], "class")
                 = conf.backends[i].impl
        /\ (response.content_type = TextHtml) =>
             \A k \in DOMAIN response.body.rows :
               response.body.rows[k][1] = <<BackendsWithReason[k].impl>>

\* C9: a non-HEAD request answered as text/plain gets 200 with the body
\* "OK" whenever the verdict is healthy, for every set of backends, the
\* empty one included, and 503 when a backend reports an issue.
C9_HealthyPlainBodyIsOK ==
    (Responded /\ req.method # "HEAD" /\ response.content_type = TextPlain) =>
        IF AllAvailable
        THEN response.status = 200 /\ response.body = <<"O", "K">>
        ELSE response.status = 503

\* C10: for a request on the configured path, whatever the method and the
\* Accept header, every backend has been invoked exactly once, in
\* configured order, before the response is built, an unavailable result
\* skipping none of the later ones, and the results match the backends in
\* length and order; for any other path no backend is invoked.
InConfiguredOrder(calls) ==
    calls = [i \in 1..Len(conf.backends) |-> i]

C10_AllBackendsInvokedFirst ==
    [][ /\ (response'.kind = "Response") =>
             /\ InConfiguredOrder(invoked)
             /\ invoked' = invoked
             /\ Len(results) = Len(conf.backends)
             /\ results' = results
        /\ (response'.kind = "None") => (invoked' = <<>> /\ results' = <<>>)
      ]_vars

C10_Witness ==
    /\ Responded
    /\ req.method = "HEAD"
    /\ Len(conf.backends) = 3
    /\ ~results[1].available
    /\ invoked = <<1, 2, 3>>

====
